---- MODULE Spec2Model ----
(***************************************************************************)
(* Model of goit-algo-hw-05:                                               *)
(*   task_3.py  substring search: compute_lps / kmp_search,                *)
(*              build_shift_table / boyer_moore_search,                    *)
(*              polynomial_hash / rabin_karp_search                        *)
(*   task_1.py  HashTable (separate chaining)                              *)
(*                                                                         *)
(* Strings are sequences of code points (the value of ord(char)).  Python  *)
(* indexes from 0, TLA+ sequences from 1: At(s, k) is Python's s[k].        *)
(* One run of the search model calls kmp_search, boyer_moore_search and    *)
(* rabin_karp_search in turn on the same (text, pattern), as               *)
(* compare_algorithms does, and keeps what each call returned or raised.   *)
(***************************************************************************)
EXTENDS Integers, Sequences, FiniteSets, TLC

\* ------------------------------------------------------------------ bounds
MaxText == 4
MaxPat == 4
MaxKey == 3
TableSize == 2

\* Code points used as symbols: 'a', 'b' and U+00C6, whose code point is
\* congruent to ord('a') modulo 101, so that distinct windows collide.
Sigma == {97, 98, 198}
Values == {"v1", "v2"}
Keys == 0..MaxKey

\* ------------------------------------------------------- program constants
base == 256
modulus == 101
None == "None"

VARIABLES
    main_string,        \* the text searched
    pattern,            \* the pattern searched for
    pc,                 \* position of the run
    lps,                \* compute_lps / kmp_search: the LPS table
    length,             \* compute_lps: running prefix length
    i,                  \* the cursor named i of the function that is running
    j,                  \* kmp_search / boyer_moore_search: pattern cursor
    shift_table,        \* boyer_moore_search: bad-character table
    substring_hash,     \* rabin_karp_search
    current_slice_hash, \* rabin_karp_search
    h_multiplier,       \* rabin_karp_search
    kmp_result,         \* outcome of kmp_search
    bm_result,          \* outcome of boyer_moore_search
    rk_result,          \* outcome of rabin_karp_search
    table,              \* HashTable.table
    last                \* HashTable: the last call and what it returned

searchVars == <<main_string, pattern, pc, lps, length, i, j, shift_table,
                substring_hash, current_slice_hash, h_multiplier,
                kmp_result, bm_result, rk_result>>
htVars == <<table, last>>
vars == <<main_string, pattern, pc, lps, length, i, j, shift_table,
          substring_hash, current_slice_hash, h_multiplier,
          kmp_result, bm_result, rk_result, table, last>>

\* ---------------------------------------------------------------- helpers
\* Python s[k] for 0 <= k < len(s)
At(s, k) == s[k + 1]

\* Python s[a:b] for 0 <= a, 0 <= b (the slice is clamped to the string)
Slice(s, a, b) == SubSeq(s, a + 1, IF b < Len(s) THEN b ELSE Len(s))

\* all strings over Sigma of length at most n
Strings(n) == UNION {[1..k -> Sigma] : k \in 0..n}

\* outcome of a call
Pending == [kind |-> "pending", value |-> 0]
Return(v) == [kind |-> "return", value |-> v]
Raise(e) == [kind |-> e, value |-> 0]

\* pow(b, e) % m for e >= 0.  Python integers are unbounded, so reducing at
\* every multiplication gives the same value as reducing once at the end.
RECURSIVE PowMod(_, _, _)
PowMod(b, e, m) == IF e = 0 THEN 1 % m ELSE (PowMod(b, e - 1, m) * b) % m

\* pow(b, -1, m): the modular inverse (Python 3.8 and later)
InvMod(b, m) == CHOOSE x \in 0..(m - 1) : (x * b) % m = 1

\* ------------------------------------------------------------- compute_lps
\* lps = [0] * len(pattern)
Zeros(n) == [k \in 1..n |-> 0]

\* lps[i] = v
SetAt(l, k, v) == [l EXCEPT ![k + 1] = v]

\* length = lps[length - 1]
LpsFallback(l, len) == At(l, len - 1)

\* a loop body that never falls back: a mismatch always records 0 and moves on
LpsBodyNoFallback(p, l, len, ii) ==
    IF At(p, ii) = At(p, len)
    THEN [lps |-> SetAt(l, ii, len + 1), length |-> len + 1, i |-> ii + 1]
    ELSE [lps |-> SetAt(l, ii, 0), length |-> len, i |-> ii + 1]

\* the body of the while loop of compute_lps: the new (lps, length, i)
LpsBody(p, l, len, ii) ==
    IF At(p, ii) = At(p, len)
    THEN [lps |-> SetAt(l, ii, len + 1), length |-> len + 1, i |-> ii + 1]
    ELSE IF len # 0
         THEN [lps |-> l, length |-> LpsFallback(l, len), i |-> ii]
         ELSE [lps |-> SetAt(l, ii, 0), length |-> len, i |-> ii + 1]

\* -------------------------------------------------------------- kmp_search
\* a fallback that restarts the pattern from its first symbol
KmpFallbackReset(l, jj) == 0

\* a fallback that reads lps[j] instead of lps[j - 1]
KmpFallbackOffByOne(l, jj) == At(l, jj)

\* j = lps[j - 1]
KmpFallback(l, jj) == At(l, jj - 1)

\* ------------------------------------------------------- build_shift_table
\* table[k] = v
Put(t, k, v) == [x \in (DOMAIN t) \cup {k} |-> IF x = k THEN v ELSE t[x]]

\* length - i - 1
ShiftEntry(len, k) == len - k - 1

\* the for loop of build_shift_table over pattern[:-1]

RECURSIVE ShiftLoop(_, _, _)
ShiftLoop(p, t, k) ==
    IF k >= Len(p) - 1 THEN t
    ELSE ShiftLoop(p, Put(t, At(p, k), ShiftEntry(Len(p), k)), k + 1)

\* an assignment table[k] = v in place of setdefault
SetDefaultOverwrite(t, k, v) == Put(t, k, v)

\* table.setdefault(k, v)
SetDefault(t, k, v) == IF k \in DOMAIN t THEN t ELSE Put(t, k, v)

\* defined for a non-empty pattern; pattern[-1] raises on an empty one
build_shift_table(p) == SetDefault(ShiftLoop(p, <<>>, 0), At(p, Len(p) - 1), Len(p))

\* shift_table.get(char, pattern_length)
ShiftGet(t, char, pattern_length) ==
    IF char \in DOMAIN t THEN t[char] ELSE pattern_length

\* the inner while of boyer_moore_search: the value of j when it stops
RECURSIVE BmScan(_, _, _, _)
BmScan(text, p, ii, jj) ==
    IF jj >= 0 /\ At(text, ii + jj) = At(p, jj)
    THEN BmScan(text, p, ii, jj - 1)
    ELSE jj

\* --------------------------------------------------------- polynomial_hash
RECURSIVE PolyLoop(_, _, _)
PolyLoop(s, k, hash_value) ==
    IF k >= Len(s) THEN hash_value
    ELSE PolyLoop(s, k + 1,
                  (hash_value + At(s, k) * PowMod(base, Len(s) - k - 1, modulus))
                      % modulus)

polynomial_hash(s) == PolyLoop(s, 0, 0)

\* a multiplier with the exponent one too high
HMultiplierOffByOne(substring_length) == PowMod(base, substring_length, modulus)

\* pow(base, substring_length - 1, modulus) for substring_length >= 1
HMultiplier(substring_length) == PowMod(base, substring_length - 1, modulus)

\* the two assignments of the rolling step
RollHash(h, outgoing, incoming, mult) ==
    (((h - outgoing * mult) % modulus) * base + incoming) % modulus

\* a candidate accepted on its hash alone
SliceEqualsSkipped(text, ii, substring) == TRUE

\* main_string[i:i+substring_length] == substring
SliceEquals(text, ii, substring) == Slice(text, ii, ii + Len(substring)) = substring

\* a loop over every start position of the text
RkRangeWholeText(n, m) == n

\* range(main_string_length - substring_length + 1): the number of windows
RkRange(n, m) == n - m + 1

\* ------------------------------------------------------------------ HashTable
\* hash(key) % self.size; hash(k) = k for the small non-negative ints of Keys
hash_function(key) == key % TableSize

\* position (1-based) of the first pair of the bucket whose key is key, 0 if none
FindPair(bucket, key) ==
    IF \E k \in 1..Len(bucket) : bucket[k][1] = key
    THEN CHOOSE k \in 1..Len(bucket) :
            /\ bucket[k][1] = key
            /\ \A k2 \in 1..(k - 1) : bucket[k2][1] # key
    ELSE 0

\* list.pop(i)
Pop(bucket, k) == SubSeq(bucket, 1, k - 1) \o SubSeq(bucket, k + 1, Len(bucket))

\* an insert that appends without looking for the key
InsertTableAppend(t, key, value) ==
    SetAt(t, hash_function(key), Append(At(t, hash_function(key)), <<key, value>>))

\* the table insert(key, value) leaves
InsertTable(t, key, value) ==
    LET key_hash == hash_function(key)
        bucket == At(t, key_hash)
        k == FindPair(bucket, key)
    IN  IF bucket = <<>> THEN SetAt(t, key_hash, <<<<key, value>>>>)
        ELSE IF k # 0 THEN SetAt(t, key_hash, [bucket EXCEPT ![k] = <<key, value>>])
        ELSE SetAt(t, key_hash, Append(bucket, <<key, value>>))

\* what get(key) returns
GetValue(t, key) ==
    LET bucket == At(t, hash_function(key))
        k == FindPair(bucket, key)
    IN  IF bucket # <<>> /\ k # 0 THEN bucket[k][2] ELSE None

\* what delete(key) returns
DeleteFound(t, key) ==
    LET bucket == At(t, hash_function(key))
    IN  bucket # <<>> /\ FindPair(bucket, key) # 0

\* the table delete(key) leaves
DeleteTable(t, key) ==
    LET key_hash == hash_function(key)
        bucket == At(t, key_hash)
    IN  IF DeleteFound(t, key)
        THEN SetAt(t, key_hash, Pop(bucket, FindPair(bucket, key)))
        ELSE t

\* HashTable.__init__
EmptyTable == [k \in 1..TableSize |-> <<>>]
NoCall == [op |-> "none", key |-> 0, value |-> None, ret |-> None]

\* =================================================================== search run
M == Len(pattern)
N == Len(main_string)

SearchIdle ==
    /\ pc = "kmp_search"
    /\ lps = <<>>
    /\ length = 0
    /\ i = 0
    /\ j = 0
    /\ shift_table = <<>>
    /\ substring_hash = 0
    /\ current_slice_hash = 0
    /\ h_multiplier = 0
    /\ kmp_result = Pending
    /\ bm_result = Pending
    /\ rk_result = Pending

Init ==
    /\ main_string \in Strings(MaxText)
    /\ pattern \in Strings(MaxPat)
    /\ SearchIdle
    /\ table = EmptyTable
    /\ last = NoCall

\* kmp_search is called: M, N = ..., and compute_lps starts (lps, length, i)
KmpSearchEntry ==
    /\ pc = "kmp_search"
    /\ lps' = Zeros(M)
    /\ length' = 0
    /\ i' = 1
    /\ pc' = "compute_lps"
    /\ UNCHANGED <<main_string, pattern, j, shift_table, substring_hash,
                   current_slice_hash, h_multiplier, kmp_result, bm_result,
                   rk_result, table, last>>

\* one iteration of the while loop of compute_lps
ComputeLpsStep ==
    /\ pc = "compute_lps"
    /\ i < M
    /\ lps' = LpsBody(pattern, lps, length, i).lps
    /\ length' = LpsBody(pattern, lps, length, i).length
    /\ i' = LpsBody(pattern, lps, length, i).i
    /\ UNCHANGED <<main_string, pattern, pc, j, shift_table, substring_hash,
                   current_slice_hash, h_multiplier, kmp_result, bm_result,
                   rk_result, table, last>>

\* compute_lps returns lps; kmp_search sets i = j = 0
ComputeLpsReturn ==
    /\ pc = "compute_lps"
    /\ ~(i < M)
    /\ i' = 0
    /\ j' = 0
    /\ pc' = "kmp_loop"
    /\ UNCHANGED <<main_string, pattern, lps, length, shift_table,
                   substring_hash, current_slice_hash, h_multiplier,
                   kmp_result, bm_result, rk_result, table, last>>

\* one iteration of the while loop of kmp_search; pattern[j] raises
\* IndexError when the pattern is empty
KmpStep ==
    /\ pc = "kmp_loop"
    /\ i < N
    /\ IF ~(j < M)
       THEN /\ kmp_result' = Raise("IndexError")
            /\ pc' = "boyer_moore_search"
            /\ UNCHANGED <<i, j>>
       ELSE IF At(pattern, j) = At(main_string, i)
            THEN /\ i' = i + 1
                 /\ j' = j + 1
                 /\ IF j + 1 = M
                    THEN /\ kmp_result' = Return((i + 1) - (j + 1))
                         /\ pc' = "boyer_moore_search"
                    ELSE UNCHANGED <<kmp_result, pc>>
            ELSE IF j # 0
                 THEN /\ j' = KmpFallback(lps, j)
                      /\ UNCHANGED <<i, kmp_result, pc>>
                 ELSE /\ i' = i + 1
                      /\ UNCHANGED <<j, kmp_result, pc>>
    /\ UNCHANGED <<main_string, pattern, lps, length, shift_table,
                   substring_hash, current_slice_hash, h_multiplier,
                   bm_result, rk_result, table, last>>

\* the loop of kmp_search ends: return -1
KmpReturn ==
    /\ pc = "kmp_loop"
    /\ ~(i < N)
    /\ kmp_result' = Return(-1)
    /\ pc' = "boyer_moore_search"
    /\ UNCHANGED <<main_string, pattern, lps, length, i, j, shift_table,
                   substring_hash, current_slice_hash, h_multiplier,
                   bm_result, rk_result, table, last>>

\* boyer_moore_search is called: build_shift_table (pattern[-1] raises
\* IndexError on the empty pattern), i = 0
BmEntry ==
    /\ pc = "boyer_moore_search"
    /\ IF M = 0
       THEN /\ bm_result' = Raise("IndexError")
            /\ pc' = "rabin_karp_search"
            /\ UNCHANGED <<shift_table, i>>
       ELSE /\ shift_table' = build_shift_table(pattern)
            /\ i' = 0
            /\ pc' = "bm_loop"
            /\ UNCHANGED bm_result
    /\ UNCHANGED <<main_string, pattern, lps, length, j, substring_hash,
                   current_slice_hash, h_multiplier, kmp_result, rk_result,
                   table, last>>

\* one iteration of the outer while loop of boyer_moore_search
BmStep ==
    /\ pc = "bm_loop"
    /\ i <= N - M
    /\ j' = BmScan(main_string, pattern, i, M - 1)
    /\ IF j' < 0
       THEN /\ bm_result' = Return(i)
            /\ pc' = "rabin_karp_search"
            /\ UNCHANGED i
       ELSE /\ i' = i + ShiftGet(shift_table, At(main_string, i + M - 1), M)
            /\ UNCHANGED <<bm_result, pc>>
    /\ UNCHANGED <<main_string, pattern, lps, length, shift_table,
                   substring_hash, current_slice_hash, h_multiplier,
                   kmp_result, rk_result, table, last>>

\* the loop of boyer_moore_search ends: return -1
BmReturn ==
    /\ pc = "bm_loop"
    /\ ~(i <= N - M)
    /\ bm_result' = Return(-1)
    /\ pc' = "rabin_karp_search"
    /\ UNCHANGED <<main_string, pattern, lps, length, i, j, shift_table,
                   substring_hash, current_slice_hash, h_multiplier,
                   kmp_result, rk_result, table, last>>

\* rabin_karp_search is called: the two hashes and h_multiplier.  For the
\* empty pattern the exponent is -1: pow returns the modular inverse
\* (Python 3.8 and later) or raises ValueError (earlier interpreters).
RkEntry ==
    /\ pc = "rabin_karp_search"
    /\ substring_hash' = polynomial_hash(pattern)
    /\ current_slice_hash' = polynomial_hash(Slice(main_string, 0, M))
    /\ \/ /\ M >= 1
          /\ h_multiplier' = HMultiplier(M)
          /\ i' = 0
          /\ pc' = "rk_loop"
          /\ UNCHANGED rk_result
       \/ /\ M = 0
          /\ h_multiplier' = InvMod(base, modulus)
          /\ i' = 0
          /\ pc' = "rk_loop"
          /\ UNCHANGED rk_result
       \/ /\ M = 0
          /\ rk_result' = Raise("ValueError")
          /\ pc' = "done"
          /\ UNCHANGED <<h_multiplier, i>>
    /\ UNCHANGED <<main_string, pattern, lps, length, j, shift_table,
                   kmp_result, bm_result, table, last>>

\* one iteration of the for loop of rabin_karp_search
RkStep ==
    /\ pc = "rk_loop"
    /\ i < RkRange(N, M)
    /\ IF substring_hash = current_slice_hash /\ SliceEquals(main_string, i, pattern)
       THEN /\ rk_result' = Return(i)
            /\ pc' = "done"
            /\ UNCHANGED <<i, current_slice_hash>>
       ELSE /\ IF i < N - M
               THEN current_slice_hash' =
                        RollHash(current_slice_hash, At(main_string, i),
                                 At(main_string, i + M), h_multiplier)
               ELSE UNCHANGED current_slice_hash
            /\ i' = i + 1
            /\ UNCHANGED <<rk_result, pc>>
    /\ UNCHANGED <<main_string, pattern, lps, length, j, shift_table,
                   substring_hash, h_multiplier, kmp_result, bm_result,
                   table, last>>

\* the loop of rabin_karp_search ends: return -1
RkReturn ==
    /\ pc = "rk_loop"
    /\ ~(i < RkRange(N, M))
    /\ rk_result' = Return(-1)
    /\ pc' = "done"
    /\ UNCHANGED <<main_string, pattern, lps, length, i, j, shift_table,
                   substring_hash, current_slice_hash, h_multiplier,
                   kmp_result, bm_result, table, last>>

Next ==
    \/ KmpSearchEntry
    \/ ComputeLpsStep
    \/ ComputeLpsReturn
    \/ KmpStep
    \/ KmpReturn
    \/ BmEntry
    \/ BmStep
    \/ BmReturn
    \/ RkEntry
    \/ RkStep
    \/ RkReturn

Spec == Init /\ [][Next]_vars

\* the calls run to completion: no step that can be taken is postponed for ever
FairSpec == Init /\ [][Next]_vars /\ WF_vars(Next)

\* ================================================================ HashTable run
HTInit ==
    /\ main_string = <<>>
    /\ pattern = <<>>
    /\ SearchIdle
    /\ table = EmptyTable
    /\ last = NoCall

insert ==
    \E key \in Keys, value \in Values :
        /\ table' = InsertTable(table, key, value)
        /\ last' = [op |-> "insert", key |-> key, value |-> value, ret |-> TRUE]
        /\ UNCHANGED searchVars

get ==
    \E key \in Keys :
        /\ last' = [op |-> "get", key |-> key, value |-> None,
                    ret |-> GetValue(table, key)]
        /\ UNCHANGED <<table, searchVars>>

delete ==
    \E key \in Keys :
        /\ table' = DeleteTable(table, key)
        /\ last' = [op |-> "delete", key |-> key, value |-> None,
                    ret |-> DeleteFound(table, key)]
        /\ UNCHANGED searchVars

HTNext == insert \/ get \/ delete

HTSpec == HTInit /\ [][HTNext]_vars

\* ======================================================================= claims
\* the pattern p occurs in text at the 0-based index k
Occurs(text, p, k) ==
    /\ k >= 0
    /\ k + Len(p) <= Len(text)
    /\ \A q \in 0..(Len(p) - 1) : At(text, k + q) = At(p, q)

\* the lowest index at which p occurs in text, -1 when it occurs nowhere
FirstOccurrence(text, p) ==
    IF \E k \in 0..Len(text) : Occurs(text, p, k)
    THEN CHOOSE k \in 0..Len(text) :
            /\ Occurs(text, p, k)
            /\ \A k2 \in 0..(k - 1) : ~Occurs(text, p, k2)
    ELSE -1

\* the length of the longest proper prefix of p[0..k] that is also its suffix
LongestBorder(p, k) ==
    CHOOSE b \in 0..k :
        /\ \A q \in 0..(b - 1) : At(p, q) = At(p, k - b + 1 + q)
        /\ \A b2 \in (b + 1)..k :
               \E q \in 0..(b2 - 1) : At(p, q) # At(p, k - b2 + 1 + q)

\* the symbols of p[0..upto]
Symbols(p, upto) == {At(p, k) : k \in 0..upto}

\* the index of the last occurrence of c within p[0..upto]
LastIndex(p, c, upto) ==
    CHOOSE k \in 0..upto :
        /\ At(p, k) = c
        /\ \A k2 \in (k + 1)..upto : At(p, k2) # c

\* C1: when the three calls have ended, kmp_search, boyer_moore_search and
\* rabin_karp_search have the identical outcome for every (text, pattern),
\* the empty pattern included: the same returned value, none raising while
\* another returns.
C1_AllAgree ==
    pc = "done" => (kmp_result = bm_result /\ bm_result = rk_result)

\* C2: for a non-empty pattern each matcher returns the lowest index at which
\* the pattern occurs in the text, and -1 exactly when it occurs nowhere.
C2_FirstOccurrence ==
    M >= 1 =>
        /\ kmp_result.kind # "pending" =>
               kmp_result = Return(FirstOccurrence(main_string, pattern))
        /\ bm_result.kind # "pending" =>
               bm_result = Return(FirstOccurrence(main_string, pattern))
        /\ rk_result.kind # "pending" =>
               rk_result = Return(FirstOccurrence(main_string, pattern))

\* C2 witness: the pattern occurs at two overlapping positions, the first of
\* them not at the start of the text, and all three calls returned the first.
C2_Witness ==
    /\ pc = "done"
    /\ M >= 2
    /\ \E k1 \in 1..N, k2 \in 1..N :
           /\ k1 < k2
           /\ k2 < k1 + M
           /\ Occurs(main_string, pattern, k1)
           /\ Occurs(main_string, pattern, k2)
           /\ ~Occurs(main_string, pattern, 0)
           /\ \A k0 \in 0..(k1 - 1) : ~Occurs(main_string, pattern, k0)
           /\ kmp_result = Return(k1)
           /\ bm_result = Return(k1)
           /\ rk_result = Return(k1)

\* C3: for the empty pattern all three matchers return index 0 and none of
\* them raises.
C3_EmptyPatternDefined ==
    (pc = "done" /\ M = 0) =>
        /\ kmp_result = Return(0)
        /\ bm_result = Return(0)
        /\ rk_result = Return(0)

C5_NoFalsePositive ==
    (rk_result.kind = "return" /\ rk_result.value >= 0) =>
        Occurs(main_string, pattern, rk_result.value)

\* C5 witness: rabin_karp_search has ended after passing a window whose hash
\* equals the hash of the pattern although the window differs from it.
C5_Witness ==
    /\ pc = "done"
    /\ M >= 1
    /\ rk_result.kind = "return"
    /\ \E q \in 0..(N - M) :
           /\ polynomial_hash(Slice(main_string, q, q + M)) = polynomial_hash(pattern)
           /\ ~Occurs(main_string, pattern, q)
           /\ (rk_result.value = -1 \/ q < rk_result.value)

\* C7: for a pattern of length m >= 1 the table built by build_shift_table
\* has exactly the symbols of the pattern as keys; a symbol of
\* pattern[0..m-2] maps to m - 1 - (index of its last occurrence there); the
\* last symbol maps to m when it does not occur earlier; the shift the
\* matcher uses is m for a symbol absent from the pattern and lies in 1..m
\* for every symbol.
C7_ShiftTable ==
    (pc = "bm_loop" /\ M >= 1) =>
        /\ DOMAIN shift_table = Symbols(pattern, M - 1)
        /\ \A c \in Symbols(pattern, M - 2) :
               shift_table[c] = M - 1 - LastIndex(pattern, c, M - 2)
        /\ At(pattern, M - 1) \notin Symbols(pattern, M - 2) =>
               shift_table[At(pattern, M - 1)] = M
        /\ \A c \in Sigma \ Symbols(pattern, M - 1) :
               ShiftGet(shift_table, c, M) = M
        /\ \A c \in Sigma : ShiftGet(shift_table, c, M) \in 1..M

\* C7 witness: the table of a pattern of length >= 3 whose last symbol also
\* occurs earlier, in which some symbol occurs twice before the last position
\* and some symbol of the alphabet is absent.
C7_Witness ==
    /\ pc = "bm_loop"
    /\ M >= 3
    /\ At(pattern, M - 1) \in Symbols(pattern, M - 2)
    /\ \E k1 \in 0..(M - 2), k2 \in 0..(M - 2) :
           k1 < k2 /\ At(pattern, k1) = At(pattern, k2)
    /\ Sigma \ Symbols(pattern, M - 1) # {}
    /\ Cardinality(DOMAIN shift_table) >= 2

\* C8: the table compute_lps returns has length m, and its entry i is the
\* length of the longest proper prefix of pattern[0..i] that is also a suffix
\* of pattern[0..i]; so 0 <= lps[i] <= i.
C8_LpsCorrect ==
    pc \notin {"kmp_search", "compute_lps"} =>
        /\ Len(lps) = M
        /\ \A k \in 0..(M - 1) :
               /\ At(lps, k) = LongestBorder(pattern, k)
               /\ 0 <= At(lps, k)
               /\ At(lps, k) <= k

\* C8 witness: compute_lps has returned the table [0, 0, 1, 1] of a pattern
\* such as "abaa", whose last entry is found only after a fallback.
C8_Witness ==
    /\ pc = "kmp_loop"
    /\ M = 4
    /\ lps = <<0, 0, 1, 1>>
    /\ At(pattern, 3) # At(pattern, 1)

\* C9: with 1 <= m <= n, at the start of every iteration i of the loop of
\* rabin_karp_search the rolling value current_slice_hash lies in
\* [0, modulus) and equals polynomial_hash of the window text[i..i+m).
C9_RollingHash ==
    (pc = "rk_loop" /\ M >= 1 /\ M <= N /\ i < RkRange(N, M)) =>
        /\ current_slice_hash \in 0..(modulus - 1)
        /\ current_slice_hash =
               polynomial_hash(Slice(main_string, i, i + M))
        /\ substring_hash = polynomial_hash(pattern)

\* C9 witness: the loop is at its third window or later, of a pattern of at
\* least two symbols, so the hash has been rolled twice.
C9_Witness ==
    /\ pc = "rk_loop"
    /\ M >= 2
    /\ i >= 2
    /\ i < RkRange(N, M)
    /\ At(main_string, 0) # At(main_string, 1)

\* C10: for a non-empty pattern the three calls run to completion; in
\* kmp_search the text cursor i never decreases, every iteration either
\* increases i or strictly decreases j, and j stays in [0, m); in
\* boyer_moore_search every window that does not match moves i forward by at
\* least 1.
KmpProgress ==
    (pc = "kmp_loop" /\ M >= 1) =>
        /\ j \in 0..(M - 1)
        /\ i' >= i
        /\ pc' = "kmp_loop" => (i' > i \/ j' < j)

BmProgress ==
    (pc = "bm_loop" /\ pc' = "bm_loop") => i' >= i + 1

C10_Termination ==
    /\ (M >= 1) => <>(pc = "done")
    /\ [][KmpProgress]_vars
    /\ [][BmProgress]_vars

\* C10 witness: all three calls have ended on a text longer than a pattern of
\* at least two symbols that occurs nowhere in it, after whole scans.
C10_Witness ==
    /\ pc = "done"
    /\ M >= 2
    /\ N > M
    /\ kmp_result = Return(-1)
    /\ bm_result = Return(-1)
    /\ rk_result = Return(-1)

\* C6: the table behaves like a map from keys to values.  A new table maps
\* no key.  insert(k, v) returns True, makes get(k) return v and leaves the
\* value of every other key unchanged; delete(k) returns True exactly when k
\* was present, makes get(k) return None and leaves every other key
\* unchanged; get(k) returns the value mapped and changes nothing.
C6Step ==
    /\ last'.op = "insert" =>
           /\ last'.ret = TRUE
           /\ GetValue(table', last'.key) = last'.value
           /\ \A k \in Keys \ {last'.key} : GetValue(table', k) = GetValue(table, k)
    /\ last'.op = "delete" =>
           /\ last'.ret = (GetValue(table, last'.key) # None)
           /\ GetValue(table', last'.key) = None
           /\ \A k \in Keys \ {last'.key} : GetValue(table', k) = GetValue(table, k)
    /\ last'.op = "get" =>
           /\ last'.ret = GetValue(table, last'.key)
           /\ table' = table

C6_MapBehaviour ==
    /\ \A k \in Keys : GetValue(table, k) = None
    /\ [][C6Step]_vars

\* C6 witness: a delete has just removed a key from a bucket that still holds
\* another key, while a third key is mapped too.
C6_Witness ==
    /\ last.op = "delete"
    /\ last.ret = TRUE
    /\ Len(At(table, hash_function(last.key))) >= 1
    /\ Cardinality({k \in Keys : GetValue(table, k) # None}) >= 2

====
